---------------------------- MODULE Spec2Model ----------------------------
(***************************************************************************)
(* Model of simulations/qho/qho.py: FunctionSampler (a cached lookup       *)
(* table), HilbertSpace (per-mode tables of the harmonic-oscillator basis  *)
(* and its eigenvalues) and WaveFunction (coefficients, normalisation,     *)
(* phase evolution).                                                       *)
(*                                                                         *)
(* Number representation.                                                  *)
(*  - Positions are rationals.  A position handed to a sampler (its minX,  *)
(*    maxX and every query x) is an integer numerator over XDen.           *)
(*    A grid point of a sampler with N samples is an integer numerator     *)
(*    over XDen * GridDen(N), which is what np.linspace produces.          *)
(*  - Arithmetic is exact; Python's round() (half to even) is RoundHalfEven.*)
(*  - Times are integer multiples of pi/2, so that every phase factor      *)
(*    exp(-i(n+1/2)t) is a power of zeta = exp(i pi/4).  A complex number  *)
(*    is a 4-tuple <<a0,a1,a2,a3>> meaning a0 + a1 zeta + a2 zeta^2 +      *)
(*    a3 zeta^3 (zeta^4 = -1), and a squared modulus is a pair <<r,s>>     *)
(*    meaning r + s*sqrt(2).                                               *)
(*  - The closed-form basis function is carried by its Hermite factor with *)
(*    denominators cleared (HermiteScaled); the strictly positive factor   *)
(*    pi^(1/4) exp(-x^2/2) / sqrt(2^n n!) of line 74 is not representable  *)
(*    in integers and is left out of the amplitude.                        *)
(*  - integrate.quad over the real line is a sum over the nodes Points.    *)
(***************************************************************************)
EXTENDS Integers, Sequences, FiniteSets, TLC

VARIABLES fs, call, spaces, hs, psi, coeffList, result

vars == <<fs, call, spaces, hs, psi, coeffList, result>>

(***************************************************************************)
(* Bounds of the model.                                                    *)
(***************************************************************************)
\* denominator of the positions handed to a sampler
XDen == 2
\* sampler parameters explored by SamplerSpec: minX, maxX numerators in
\* -MaxEdge..MaxEdge, numSamples in 1..MaxSamples, queries in -MaxQuery..MaxQuery
MaxEdge == 3
MaxSamples == 4
MaxQuery == 8
\* the tables of a HilbertSpace span [-TableHalfWidth, TableHalfWidth] with
\* TableSamples samples (the program uses -15, 15 and 2000)
TableHalfWidth == 2
TableSamples == 6
\* HilbertSpace objects alive at once, and their largest dimension
MaxSpaces == 2
MaxDim == 2
\* quadrature nodes and evaluation points: numerators -QuadSpan..QuadSpan
QuadSpan == 2
\* evaluation times 0..MaxTime, in units of pi/2
MaxTime == 7

\* Number of time units in 2*pi (time unit pi/2, from the phase of line 108)
TicksPerTurn == 4

Abs(a) == IF a < 0 THEN -a ELSE a

Min2(a, b) == IF a < b THEN a ELSE b

Max2(a, b) == IF a > b THEN a ELSE b

(***************************************************************************)
(* Python's round(): nearest integer to num/den (den > 0), ties to even.   *)
(***************************************************************************)
RoundHalfEven(num, den) ==
    LET q == num \div den
        r == num % den
    IN  IF 2 * r < den THEN q
        ELSE IF 2 * r > den THEN q + 1
        ELSE IF q % 2 = 0 THEN q ELSE q + 1

(***************************************************************************)
(* FunctionSampler                                                         *)
(***************************************************************************)
\* denominator of np.linspace's step (maxX-minX)/(num-1); one point for num = 1
GridDen(numSamples) == IF numSamples = 1 THEN 1 ELSE numSamples - 1

\* np.linspace(minX, maxX, numSamples): numerators over XDen * GridDen
Linspace(minX, maxX, numSamples) ==
    [i \in 1..numSamples |->
        minX * GridDen(numSamples) + (i - 1) * (maxX - minX)]

\* hermite(n)(x) at x = p/q with the denominator cleared: q^n * H_n(p/q),
\* by H_0 = 1, H_1 = 2x, H_{k+1} = 2x H_k - 2k H_{k-1}
RECURSIVE HermiteScaled(_, _, _)
HermiteScaled(n, p, q) ==
    IF n = 0 THEN 1
    ELSE IF n = 1 THEN 2 * p
    ELSE 2 * p * HermiteScaled(n - 1, p, q)
         - 2 * (n - 1) * q * q * HermiteScaled(n - 2, p, q)

\* lines 74-75: the closed form self.QHOBasis(n, x), x = p/q
QHOBasisClosed(n, p, q) == HermiteScaled(n, p, q)

\* a sampler that called f lazily, after the loop, would read the last n
SampledModeLate(n, dim) == dim - 1

\* line 80: the value of the loop variable n that the lambda
\* `lambda x: self.QHOBasis(n, x)` reads when FunctionSampler.__init__ calls it
\* during iteration n of the loop over range(dim): the call is eager, so n itself
SampledMode(n, dim) == n

\* The functions handed to a sampler.  TagFunction names the grid point it is
\* called at, so that a stored value tells where it was taken.  ModeLambda is
\* the closure of line 80, lambda x: self.QHOBasis(n, x), made in iteration n
\* of the loop over range(dim).
TagFunction == [kind |-> "tag", n |-> 0, dim |-> 0]

ModeLambda(n, dim) == [kind |-> "QHOBasis", n |-> n, dim |-> dim]

\* f(x) for x = p/q
ApplyF(f, p, q) ==
    IF f.kind = "tag" THEN <<p, q>>
    ELSE QHOBasisClosed(SampledMode(f.n, f.dim), p, q)

\* FunctionSampler.__init__: f is called at every grid point
FunctionSampler(f, minX, maxX, numSamples) ==
    LET domain == Linspace(minX, maxX, numSamples)
    IN  [minX |-> minX, maxX |-> maxX, range |-> maxX - minX,
         numSamples |-> numSamples,
         domain |-> domain,
         image |-> [i \in 1..numSamples |->
                        ApplyF(f, domain[i], XDen * GridDen(numSamples))]]

\* line 58: x = min(max(x, self.minX), self.maxX - 1)
ClampX(s, x) == Min2(Max2(x, s.minX), s.maxX - XDen)

\* lines 59-60: the index round((x - minX) * (numSamples / range))
CallIndex(s, x) ==
    RoundHalfEven((ClampX(s, x) - s.minX) * s.numSamples, s.range)

\* line 62: self.image[int(x)] raises IndexError outside [-len, len)
CallRaises(s, x) ==
    \/ CallIndex(s, x) >= s.numSamples
    \/ CallIndex(s, x) < -s.numSamples

\* line 62: the 1-based position of the element Python's indexing returns
\* (a negative index counts from the end)
CallSlot(s, x) ==
    IF CallIndex(s, x) < 0 THEN s.numSamples + CallIndex(s, x) + 1
    ELSE CallIndex(s, x) + 1

\* FunctionSampler.__call__, when it returns
CallValue(s, x) == s.image[CallSlot(s, x)]


(***************************************************************************)
(* SamplerSpec: a FunctionSampler built with arbitrary parameters and      *)
(* called at arbitrary points.  The sampled function is TagFunction.       *)
(***************************************************************************)
InitSampler == FunctionSampler(TagFunction, 0, XDen, 1)

NoCall == [done |-> FALSE, x |-> 0, index |-> 0, outcome |-> "none", slot |-> 0,
           value |-> <<>>]

Edges == -MaxEdge..MaxEdge

Queries == -MaxQuery..MaxQuery

\* f = FunctionSampler(f, minX, maxX, numSamples) with minX < maxX, numSamples >= 1
SamplerConstruct(minX, maxX, numSamples) ==
    /\ minX < maxX
    /\ fs' = FunctionSampler(TagFunction, minX, maxX, numSamples)
    /\ call' = NoCall
    /\ UNCHANGED <<spaces, hs, psi, coeffList, result>>

\* f(x)
SamplerCall(x) ==
    /\ call' = IF CallRaises(fs, x)
               THEN [done |-> TRUE, x |-> x, index |-> CallIndex(fs, x),
                     outcome |-> "IndexError", slot |-> 0, value |-> <<>>]
               ELSE [done |-> TRUE, x |-> x, index |-> CallIndex(fs, x),
                     outcome |-> "ok", slot |-> CallSlot(fs, x),
                     value |-> CallValue(fs, x)]
    /\ UNCHANGED <<fs, spaces, hs, psi, coeffList, result>>

(***************************************************************************)
(* HilbertSpace                                                            *)
(***************************************************************************)
\* lines 77-80: QHOBasisApprox, one table per mode (mode n is element n + 1)
BuildApprox(dim) ==
    [k \in 1..dim |->
        FunctionSampler(ModeLambda(k - 1, dim),
                        -TableHalfWidth * XDen, TableHalfWidth * XDen, TableSamples)]

\* HilbertSpace.__init__ with basis = 'QHO'
HilbertSpaceInit(dim) == [dim |-> dim, QHOBasisApprox |-> BuildApprox(dim)]

\* line 82: QHOBasisApprox[n] raises IndexError outside [-len, len), and the
\* sampler call may raise in turn
EigenbasisRaises(sp, n, x) ==
    LET len == Len(sp.QHOBasisApprox)
    IN  \/ n >= len
        \/ n < -len
        \/ CallRaises(sp.QHOBasisApprox[IF n < 0 THEN len + n + 1 ELSE n + 1], x)

\* line 82: self.eigenbasis(n, x) = QHOBasisApprox[n](x), when it returns
EigenbasisValue(sp, n, x) ==
    LET len == Len(sp.QHOBasisApprox)
    IN  CallValue(sp.QHOBasisApprox[IF n < 0 THEN len + n + 1 ELSE n + 1], x)

\* (1 + n) / 2 in place of 1/2 + n, doubled
Eigenvalues2Slip(n) == 1 + n

\* line 85: self.eigenvalues(n) = 1/2 + n, carried doubled
Eigenvalues2(n) == 1 + 2 * n

NoResult == [op |-> "none", outcome |-> "none", args |-> <<>>, value |-> <<>>]

Dims == 1..MaxDim

ModeArgs == (-MaxDim - 1)..(MaxDim + 1)

Points == -QuadSpan..QuadSpan

\* HilbertSpace(dim=d), optionally bound to the module-level name hs (line 236)
NewHilbertSpace(d, bind) ==
    /\ Len(spaces) < MaxSpaces
    /\ spaces' = Append(spaces, HilbertSpaceInit(d))
    /\ hs' = IF bind THEN Len(spaces) + 1 ELSE hs
    /\ result' = [op |-> "HilbertSpace", outcome |-> "ok",
                  args |-> <<d>>, value |-> <<Len(spaces) + 1>>]
    /\ UNCHANGED <<fs, call, psi, coeffList>>

\* spaces[h].eigenbasis(n, x)
Eigenbasis(h, n, x) ==
    /\ h \in 1..Len(spaces)
    /\ result' = IF EigenbasisRaises(spaces[h], n, x)
                 THEN [op |-> "eigenbasis", outcome |-> "IndexError",
                       args |-> <<h, n, x>>, value |-> <<>>]
                 ELSE [op |-> "eigenbasis", outcome |-> "ok",
                       args |-> <<h, n, x>>,
                       value |-> <<EigenbasisValue(spaces[h], n, x)>>]
    /\ UNCHANGED <<fs, call, spaces, hs, psi, coeffList>>

\* spaces[h].eigenvalues(n)
Eigenvalues(h, n) ==
    /\ h \in 1..Len(spaces)
    /\ result' = [op |-> "eigenvalues", outcome |-> "ok",
                  args |-> <<h, n>>, value |-> <<Eigenvalues2(n)>>]
    /\ UNCHANGED <<fs, call, spaces, hs, psi, coeffList>>


(***************************************************************************)
(* Complex numbers in Z[zeta], zeta = exp(i pi/4)                          *)
(***************************************************************************)
CZero == <<0, 0, 0, 0>>

CAdd(u, v) == <<u[1] + v[1], u[2] + v[2], u[3] + v[3], u[4] + v[4]>>

\* a * zeta^k for an integer a
ZetaPow(a, k) ==
    LET e == k % (2 * TicksPerTurn)
        j == e % TicksPerTurn
        b == IF e < TicksPerTurn THEN a ELSE -a
    IN  [i \in 1..4 |-> IF i = j + 1 THEN b ELSE 0]

\* np.absolute(z) ** 2 as r + s*sqrt(2)
AbsSq(z) ==
    <<z[1] * z[1] + z[2] * z[2] + z[3] * z[3] + z[4] * z[4],
      z[1] * z[2] + z[2] * z[3] + z[3] * z[4] - z[1] * z[4]>>

(***************************************************************************)
(* WaveFunction                                                            *)
(***************************************************************************)
\* line 108: phaseFactor(n, t) = exp(-1j * eigenvalues(n) * t) is zeta^PhaseExp,
\* t counted in units of pi/2
PhaseExp(n, t) == (-Eigenvalues2(n) * t) % (2 * TicksPerTurn)

\* lines 100-101: the list comprehension raises IndexError when self.coeff[n]
\* or eigenbasis(n, x) does, for some n in range(self.hilbert.dim)
RawRaises(coeff, sp, x) ==
    \E n \in 0..(sp.dim - 1) :
        \/ n >= Len(coeff)
        \/ EigenbasisRaises(sp, n, x)

\* lines 100-101: sum of coeff[n] * eigenbasis(n, x) * phaseFactor(n, t)
RECURSIVE RawSum(_, _, _, _, _)
RawSum(coeff, sp, x, t, k) ==
    IF k = 0 THEN CZero
    ELSE LET rest == RawSum(coeff, sp, x, t, k - 1)
             term == ZetaPow(coeff[k] * EigenbasisValue(sp, k - 1, x),
                             PhaseExp(k - 1, t))
         IN  CAdd(rest, term)

Raw(coeff, sp, x, t) == RawSum(coeff, sp, x, t, sp.dim)

\* line 111: the integrand raises at some node
NormalizeRaises(coeff, sp) == \E x \in Points : RawRaises(coeff, sp, x)

\* line 111: quad(|waveFunc(x)|^2) for waveFunc = evaluate(., 0); normF is its
\* square root
RECURSIVE QuadAbsSq(_, _, _)
QuadAbsSq(coeff, sp, x) ==
    IF x < -QuadSpan THEN <<0, 0>>
    ELSE LET rest == QuadAbsSq(coeff, sp, x - 1)
             sq == AbsSq(Raw(coeff, sp, x, 0))
         IN  <<rest[1] + sq[1], rest[2] + sq[2]>>

NormSq(coeff, sp) == QuadAbsSq(coeff, sp, QuadSpan)

\* initial waveforms psi_0 offered to the constructor, as functions of x:
\* zero everywhere; 1 on [-1, 1]; x on [-1, 1] (both 0 elsewhere)
Waveforms == {"zero", "box", "ramp"}

WaveVal(w, x) ==
    IF w = "zero" THEN 0
    ELSE IF x < -XDen \/ x > XDen THEN 0
    ELSE IF w = "box" THEN 1 ELSE x

\* line 115: `hs` is not defined at module level
ProjectionNameError == hs = 0

\* lines 115-117: eigenbasis(n, x) raises for some n in range(hs.dim)
ProjectionRaises(sp, w) ==
    \E n \in 0..(spaces[hs].dim - 1) : \E x \in Points : EigenbasisRaises(sp, n, x)

\* line 115: the number of coefficients the loop produces
ProjectionLength == spaces[hs].dim

\* lines 114-119: orthogonalBasisProjection(waveFunc), when it returns
RECURSIVE QuadProject(_, _, _, _)
QuadProject(sp, w, n, x) ==
    IF x < -QuadSpan THEN 0
    ELSE QuadProject(sp, w, n, x - 1) + EigenbasisValue(sp, n, x) * WaveVal(w, x)

OrthogonalBasisProjection(sp, w) ==
    [k \in 1..ProjectionLength |-> QuadProject(sp, w, k - 1, QuadSpan)]

NoPsi == [built |-> FALSE, hilbert |-> 0, normSq |-> <<0, 0>>, shared |-> FALSE,
          ctorCoeff |-> <<>>, ctorDim |-> 0]

CoeffVals == {0, 1}

CoeffLists == UNION {[1..k -> CoeffVals] : k \in 1..MaxDim}

\* lines 100-105 once self.coeff is set: the object, or the IndexError of
\* normalize.  ctorCoeff and ctorDim record the arguments as they were.
Finish(h, coeff, shared, op, args) ==
    IF NormalizeRaises(coeff, spaces[h])
    THEN /\ result' = [op |-> op, outcome |-> "IndexError", args |-> args,
                       value |-> <<Len(coeff)>>]
         /\ UNCHANGED <<psi, coeffList>>
    ELSE /\ psi' = [built |-> TRUE, hilbert |-> h,
                    normSq |-> NormSq(coeff, spaces[h]), shared |-> shared,
                    ctorCoeff |-> coeff, ctorDim |-> spaces[h].dim]
         /\ coeffList' = coeff
         /\ result' = [op |-> op, outcome |-> "ok", args |-> args,
                       value |-> <<Len(coeff)>>]

\* psi = WaveFunction(spaces[h], coeff=c): self.coeff is the caller's list
NewWaveFunctionCoeff(h, c) ==
    /\ h \in 1..Len(spaces)
    /\ Finish(h, c, TRUE, "WaveFunction(coeff)", <<h, spaces[h].dim>>)
    /\ UNCHANGED <<fs, call, spaces, hs>>

\* psi = WaveFunction(spaces[h], initWaveFunc=w)
NewWaveFunctionInit(h, w) ==
    /\ h \in 1..Len(spaces)
    /\ IF ProjectionNameError
       THEN /\ result' = [op |-> "WaveFunction(init)", outcome |-> "NameError",
                          args |-> <<h, spaces[h].dim>>, value |-> <<>>]
            /\ UNCHANGED <<psi, coeffList>>
       ELSE IF ProjectionRaises(spaces[h], w)
       THEN /\ result' = [op |-> "WaveFunction(init)", outcome |-> "IndexError",
                          args |-> <<h, spaces[h].dim>>, value |-> <<>>]
            /\ UNCHANGED <<psi, coeffList>>
       ELSE \* the projection returned: value records how many coefficients
            Finish(h, OrthogonalBasisProjection(spaces[h], w), FALSE,
                   "WaveFunction(init)", <<h, spaces[h].dim>>)
    /\ UNCHANGED <<fs, call, spaces, hs>>

\* line 105: self.evaluate(x, t) = evaluate(x, t) / normF, reading self.coeff
\* and self.hilbert as they are at the call.  The value is the raw sum together
\* with normF squared; dividing by a zero normF (a numpy float) yields nan
\* without raising.
EvaluateOutcome(coeff, sp, normSq, x, t) ==
    IF RawRaises(coeff, sp, x) THEN <<"IndexError">>
    ELSE IF normSq = <<0, 0>> THEN <<"nan">>
    ELSE <<"ok", Raw(coeff, sp, x, t), normSq>>

\* psi.evaluate(x, t)
Evaluate(x, t) ==
    /\ psi.built
    /\ LET out == EvaluateOutcome(coeffList, spaces[psi.hilbert], psi.normSq, x, t)
       IN  result' = [op |-> "evaluate", outcome |-> out[1], args |-> <<x, t>>,
                      value |-> Tail(out)]
    /\ UNCHANGED <<fs, call, spaces, hs, psi, coeffList>>

\* the caller assigns an element of the list it passed as coeff
CallerSetItem(i, v) ==
    /\ psi.built
    /\ psi.shared
    /\ i \in 1..Len(coeffList)
    /\ coeffList' = [coeffList EXCEPT ![i] = v]
    /\ UNCHANGED <<fs, call, spaces, hs, psi, result>>

\* the caller assigns spaces[h].dim
CallerSetDim(h, d) ==
    /\ h \in 1..Len(spaces)
    /\ spaces' = [spaces EXCEPT ![h].dim = d]
    /\ UNCHANGED <<fs, call, hs, psi, coeffList, result>>

(***************************************************************************)
(* Specifications                                                          *)
(***************************************************************************)
\* SamplerSpec: one FunctionSampler, rebuilt and called at will
SamplerInit ==
    /\ fs = InitSampler
    /\ call = NoCall
    /\ spaces = <<>>
    /\ hs = 0
    /\ psi = NoPsi
    /\ coeffList = <<>>
    /\ result = NoResult

SamplerNext ==
    \/ \E a \in Edges, b \in Edges, n \in 1..MaxSamples : SamplerConstruct(a, b, n)
    \/ \E x \in Queries : SamplerCall(x)

SamplerSpec == SamplerInit /\ [][SamplerNext]_vars

\* the module before line 236: no HilbertSpace yet, the name hs unbound
EmptyInit ==
    /\ fs = InitSampler
    /\ call = NoCall
    /\ spaces = <<>>
    /\ hs = 0
    /\ psi = NoPsi
    /\ coeffList = <<>>
    /\ result = NoResult

\* HilbertSpec: HilbertSpace objects and direct calls of their two methods
HilbertNext ==
    \/ \E d \in Dims, bind \in BOOLEAN : NewHilbertSpace(d, bind)
    \/ \E h \in 1..MaxSpaces, n \in ModeArgs, x \in Points : Eigenbasis(h, n, x)
    \/ \E h \in 1..MaxSpaces, n \in ModeArgs : Eigenvalues(h, n)

HilbertSpec == EmptyInit /\ [][HilbertNext]_vars

\* ProjectionSpec: WaveFunctions built from an initial waveform over any of the
\* HilbertSpace objects, whatever hs names
ProjectionNext ==
    \/ \E d \in Dims, bind \in BOOLEAN : NewHilbertSpace(d, bind)
    \/ \E h \in 1..MaxSpaces, w \in Waveforms : NewWaveFunctionInit(h, w)
    \/ \E x \in Points, t \in 0..MaxTime : Evaluate(x, t)

ProjectionSpec == EmptyInit /\ [][ProjectionNext]_vars

\* line 236: hs = HilbertSpace(dim=2, ...)
ScriptDim == 2

\* Spec: the module after line 236; WaveFunctions built from coefficient lists
\* (line 237), evaluated (lines 150, 210), and the caller's later assignments
Init ==
    /\ fs = InitSampler
    /\ call = NoCall
    /\ spaces = <<HilbertSpaceInit(ScriptDim)>>
    /\ hs = 1
    /\ psi = NoPsi
    /\ coeffList = <<>>
    /\ result = NoResult

Next ==
    \/ \E c \in CoeffLists : NewWaveFunctionCoeff(hs, c)
    \/ \E x \in Points, t \in 0..MaxTime : Evaluate(x, t)
    \/ \E i \in 1..MaxDim, v \in CoeffVals : CallerSetItem(i, v)
    \/ \E d \in Dims : CallerSetDim(hs, d)

Spec == Init /\ [][Next]_vars

\* WaveSpec: the script alone, line 237 and the plotter's calls of evaluate
\* (lines 150, 210), without later assignments by the caller
WaveNext ==
    \/ \E c \in CoeffLists : NewWaveFunctionCoeff(hs, c)
    \/ \E x \in Points, t \in 0..MaxTime : Evaluate(x, t)

WaveSpec == Init /\ [][WaveNext]_vars


(***************************************************************************)
(* Properties                                                              *)
(***************************************************************************)

\* C1: whatever minX < maxX, numSamples >= 1 and query x, the index computed by
\* __call__ lies in [0, numSamples-1] and the call returns a stored value.
C1_IndexInRange ==
    call.done =>
        /\ call.index \in 0..(fs.numSamples - 1)
        /\ call.outcome = "ok"

\* C2: a query below minX returns the first stored sample (index 0), a query at
\* or above maxX returns the last stored sample (index numSamples-1).
C2_ClampsToBoundary ==
    call.done =>
        /\ call.x < fs.minX => (call.outcome = "ok" /\ call.index = 0)
        /\ call.x >= fs.maxX =>
               (call.outcome = "ok" /\ call.index = fs.numSamples - 1)

\* C3: the table holds f at the numSamples points minX + i*(maxX-minX)/numSamples
\* of [minX, maxX), and a query x in [minX, maxX) returns the value stored for
\* the grid point nearest to x.
C3_NearestGridPoint ==
    LET g == GridDen(fs.numSamples)
    IN  (call.done /\ fs.minX <= call.x /\ call.x < fs.maxX) =>
            /\ \A i \in 1..fs.numSamples :
                   fs.domain[i] * fs.numSamples
                       = (fs.minX * fs.numSamples + (i - 1) * fs.range) * g
            /\ call.outcome = "ok"
            /\ \A j \in 1..fs.numSamples :
                   Abs(call.x * g - call.value[1]) <= Abs(call.x * g - fs.domain[j])

\* C4: no WaveFunction whose normalisation integral is zero is returned by the
\* constructor.
C4_DegenerateFailsFast == psi.built => psi.normSq # <<0, 0>>

\* C5: eigenbasis(n, x) and eigenvalues(n) with n outside [0, dim) end in an
\* error and return no value.
C5_OutOfRangeRaises ==
    (/\ result.op \in {"eigenbasis", "eigenvalues"}
     /\ result.args[2] \notin 0..(spaces[result.args[1]].dim - 1))
        => result.outcome # "ok"

\* C6: for every WaveFunction the constructor returned, the integral of
\* |evaluate(x, 0)|^2 is 1: normF is not zero and the integral of |raw(x, 0)|^2
\* equals normF squared.
C6_UnitNorm ==
    psi.built =>
        /\ psi.normSq # <<0, 0>>
        /\ ~NormalizeRaises(coeffList, spaces[psi.hilbert])
        /\ NormSq(coeffList, spaces[psi.hilbert]) = psi.normSq

\* |evaluate(x, t)|^2 of the current WaveFunction: |raw|^2 over normF^2
Density(x, t) ==
    <<AbsSq(Raw(coeffList, spaces[psi.hilbert], x, t)), psi.normSq>>

BeatState ==
    /\ psi.built
    /\ psi.ctorCoeff = <<1, 1>>
    /\ coeffList = <<1, 1>>
    /\ psi.ctorDim = 2
    /\ spaces[psi.hilbert].dim = 2

\* C7: for dim = 2 and coeff = [1, 1] the density |evaluate(x, t)|^2 has period
\* 2*pi in t for every x, and no shorter positive period (among the multiples
\* of pi/2) holds for all x.
C7_BeatPeriod ==
    BeatState =>
        /\ psi.normSq # <<0, 0>>
        /\ \A x \in Points : \A t \in 0..MaxTime :
               Density(x, t + TicksPerTurn) = Density(x, t)
        /\ \A p \in 1..(TicksPerTurn - 1) :
               \E x \in Points : \E t \in 0..MaxTime :
                   Density(x, t + p) # Density(x, t)

\* an evaluation of the [1, 1] state one full period after t = 0 has returned
C7_Witness ==
    /\ BeatState
    /\ result.op = "evaluate"
    /\ result.outcome = "ok"
    /\ result.args[2] = TicksPerTurn
    /\ result.value[1] # CZero

\* C8: a WaveFunction built from an initial waveform over the HilbertSpace H
\* gets exactly H.dim projection coefficients, whatever the name hs is bound to.
C8_ProjectsOnOwnSpace ==
    result.op = "WaveFunction(init)" => result.value = <<result.args[2]>>

C10_FixedAtConstruction ==
    psi.built =>
        \A x \in Points : \A t \in 0..MaxTime :
            EvaluateOutcome(coeffList, spaces[psi.hilbert], psi.normSq, x, t)
                = EvaluateOutcome(psi.ctorCoeff,
                                  [spaces[psi.hilbert] EXCEPT !.dim = psi.ctorDim],
                                  psi.normSq, x, t)

=============================================================================
